---- MODULE Spec2Model ----
(***************************************************************************)
(* A model of the diff engine of file-compare (js/diff-engine.js, class    *)
(* DiffEngine).  A text is a sequence of characters; the characters "LF"   *)
(* and "CR" stand for \n and \r.  Line objects live in result.left and     *)
(* result.right; a pair refers to a Line by its position in that list      *)
(* (0 is null), which keeps the sharing of Line objects between            *)
(* result.left/right and result.pairs.                                     *)
(*                                                                         *)
(* Diff.diffLines and Diff.diffChars are the jsdiff library (5.1 line):    *)
(* the tokenizer with newlineIsToken, the O(ND) search of Diff.diff with   *)
(* its diagonal order and its add/remove choice, and buildValues.          *)
(***************************************************************************)
EXTENDS Integers, Sequences, FiniteSets, TLC

\* ---------------------------------------------------------------- bounds
\* the longest text of the enumerated inputs
MaxLen == 3

\* the longest pair sequence handed to detectModifications on its own
MaxPairs == 4

\* the places where a result object can be
MaxObjects == 3

\* the scaled-down threshold of character-level diffing, in lines
SmallThreshold == 4

\* The timers setTimeout can hold at a time.
MaxTimers == 2

\* ------------------------------------------------------------ characters
LF == "LF"
CR == "CR"
Chars == {"a", "b", LF}

\* An absent argument (null or undefined); it is no text.
Null == << "null" >>

\* ------------------------------------------------------- sequence helpers
RECURSIVE Flatten(_)
Flatten(ss) ==
    IF ss = << >> THEN << >> ELSE Head(ss) \o Flatten(Tail(ss))

Last(s) == s[Len(s)]

Front(s) == SubSeq(s, 1, Len(s) - 1)

Min(a, b) == IF a < b THEN a ELSE b

\* ------------------------------------------------ String.split(/\r?\n/)
\* cur is the piece being collected; an LF ends it, and a CR right before
\* that LF belongs to the separator.
RECURSIVE SplitFrom(_, _, _)
SplitFrom(text, k, cur) ==
    IF k > Len(text) THEN << cur >>
    ELSE IF text[k] = LF
         THEN << (IF cur # << >> /\ Last(cur) = CR THEN Front(cur) ELSE cur) >>
              \o SplitFrom(text, k + 1, << >>)
         ELSE SplitFrom(text, k + 1, Append(cur, text[k]))

SplitNewlines(text) == SplitFrom(text, 1, << >>)

\* DiffEngine.splitLines
splitLines(text) ==
    IF text = Null \/ text = << >> THEN << >> ELSE SplitNewlines(text)

\* ------------------------------------------- jsdiff: lineDiff.tokenize
\* value.split(/(\n|\r\n)/) keeps the separators as pieces of their own;
\* with newlineIsToken every piece is a token, and removeEmpty drops the
\* empty ones.
RECURSIVE PiecesFrom(_, _, _)
PiecesFrom(text, k, cur) ==
    IF k > Len(text) THEN << cur >>
    ELSE IF text[k] = LF
         THEN IF cur # << >> /\ Last(cur) = CR
              THEN << Front(cur), << CR, LF >> >> \o PiecesFrom(text, k + 1, << >>)
              ELSE << cur, << LF >> >> \o PiecesFrom(text, k + 1, << >>)
         ELSE PiecesFrom(text, k + 1, Append(cur, text[k]))

removeEmpty(tokens) == SelectSeq(tokens, LAMBDA t : t # << >>)

lineTokenize(text) == removeEmpty(PiecesFrom(text, 1, << >>))

\* jsdiff: characterDiff.tokenize is value.split('')
charTokenize(text) == [k \in 1..Len(text) |-> << text[k] >>]

\* ------------------------------------------------- jsdiff: Diff.diff
\* A path is [newPos, components]; positions are the 0-based index of the
\* last consumed token (-1: none).  A component is [count, kind].
NoPath == [newPos |-> -2, components |-> << >>]

pushComponent(components, kind) ==
    IF components # << >> /\ Last(components).kind = kind
    THEN [components EXCEPT ![Len(components)].count = @ + 1]
    ELSE Append(components, [count |-> 1, kind |-> kind])

RECURSIVE CommonCount(_, _, _, _)
CommonCount(newString, oldString, newPos, oldPos) ==
    IF newPos + 1 < Len(newString) /\ oldPos + 1 < Len(oldString)
       /\ newString[newPos + 2] = oldString[oldPos + 2]
    THEN 1 + CommonCount(newString, oldString, newPos + 1, oldPos + 1)
    ELSE 0

extractCommon(basePath, newString, oldString, diagonalPath) ==
    LET c == CommonCount(newString, oldString, basePath.newPos,
                         basePath.newPos - diagonalPath)
    IN [newPos |-> basePath.newPos + c,
        components |-> IF c > 0
                       THEN Append(basePath.components,
                                   [count |-> c, kind |-> "common"])
                       ELSE basePath.components]

\* One diagonal of execEditLength: the path kept for diagonalPath, from
\* the paths of the two neighbouring diagonals of the previous round.
StepDiagonal(bestPath, diagonalPath, newString, oldString) ==
    LET addPath == bestPath[diagonalPath - 1]
        removePath == bestPath[diagonalPath + 1]
        oldPos == (IF removePath # NoPath THEN removePath.newPos ELSE 0)
                  - diagonalPath
        canAdd == addPath # NoPath /\ addPath.newPos + 1 < Len(newString)
        canRemove == removePath # NoPath /\ 0 <= oldPos
                     /\ oldPos < Len(oldString)
    IN IF ~canAdd /\ ~canRemove THEN NoPath
       ELSE IF ~canAdd \/ (canRemove /\ addPath.newPos < removePath.newPos)
            THEN extractCommon(
                     [newPos |-> removePath.newPos,
                      components |-> pushComponent(removePath.components, "removed")],
                     newString, oldString, diagonalPath)
            ELSE extractCommon(
                     [newPos |-> addPath.newPos + 1,
                      components |-> pushComponent(addPath.components, "added")],
                     newString, oldString, diagonalPath)

AtEnd(path, diagonalPath, newString, oldString) ==
    /\ path # NoPath
    /\ path.newPos + 1 >= Len(newString)
    /\ path.newPos - diagonalPath + 1 >= Len(oldString)

RECURSIVE execEditLength(_, _, _, _)
execEditLength(editLength, bestPath, newString, oldString) ==
    LET maxEdit == Len(newString) + Len(oldString)
        diags == {d \in (-editLength)..editLength : (d + editLength) % 2 = 0}
        next == [d \in (-(editLength + 2))..(editLength + 2) |->
                    IF d \in diags
                    THEN StepDiagonal(bestPath, d, newString, oldString)
                    ELSE NoPath]
        done == {d \in diags : AtEnd(next[d], d, newString, oldString)}
    IN IF done # {}
       THEN next[CHOOSE d \in done : \A e \in done : d <= e].components
       ELSE IF editLength >= maxEdit THEN << >>
       ELSE execEditLength(editLength + 1, next, newString, oldString)

\* The components of the edit script, before buildValues.
diffComponents(oldString, newString) ==
    LET maxEdit == Len(newString) + Len(oldString)
        first == extractCommon([newPos |-> -1, components |-> << >>],
                               newString, oldString, 0)
    IN IF first.newPos + 1 >= Len(newString) /\ first.newPos + 1 >= Len(oldString)
       THEN << [count |-> Len(newString), kind |-> "common"] >>
       ELSE execEditLength(1,
                [d \in (-2)..2 |-> IF d = 0 THEN first ELSE NoPath],
                newString, oldString)

\* buildValues: the value of each component, and a removal that follows an
\* addition swapped in front of it.
RECURSIVE buildValues(_, _, _, _, _, _)
buildValues(components, k, newString, oldString, newPos, oldPos) ==
    IF k > Len(components) THEN << >>
    ELSE LET c == components[k]
             rest(np, op) == buildValues(components, k + 1, newString, oldString, np, op)
         IN IF c.kind # "removed"
            THEN << [value |-> Flatten(SubSeq(newString, newPos + 1, newPos + c.count)),
                     kind |-> c.kind] >>
                 \o rest(newPos + c.count,
                         IF c.kind = "common" THEN oldPos + c.count ELSE oldPos)
            ELSE << [value |-> Flatten(SubSeq(oldString, oldPos + 1, oldPos + c.count)),
                     kind |-> "removed"] >>
                 \o rest(newPos, oldPos + c.count)

RECURSIVE SwapRemoves(_, _)
SwapRemoves(parts, k) ==
    IF k > Len(parts) THEN parts
    ELSE IF k > 1 /\ parts[k].kind = "removed" /\ parts[k - 1].kind = "added"
         THEN SwapRemoves([parts EXCEPT ![k - 1] = parts[k], ![k] = parts[k - 1]],
                          k + 1)
         ELSE SwapRemoves(parts, k + 1)

diffTokens(oldString, newString) ==
    SwapRemoves(buildValues(diffComponents(oldString, newString), 1,
                            newString, oldString, 0, 0), 1)

\* lineDiff.tokenize calls value.split on what it is given: a TypeError
\* for null and undefined.
tokenizeThrows(text) == text = Null

\* Diff.diffLines(leftText, rightText, {newlineIsToken: true})
diffLines(leftText, rightText) ==
    diffTokens(lineTokenize(leftText), lineTokenize(rightText))

\* Diff.diffChars(leftLine, rightLine)
diffChars(leftLine, rightLine) ==
    diffTokens(charTokenize(leftLine), charTokenize(rightLine))

\* ------------------------------------------------------------ DiffEngine
VARIABLES
    leftText,             \* the arguments of the compare call
    rightText,
    leftLines,            \* this.leftLines
    rightLines,           \* this.rightLines
    diffResult,           \* this.diffResult
    diffBlocks,           \* this.diffBlocks
    maxLinesForCharDiff,  \* this.maxLinesForCharDiff
    enableCharDiff,       \* this.enableCharDiff
    pc,                   \* "new": constructed; "compared": compare has
                          \* returned; "threw": compare ended in an exception
    returned,             \* the last result a compare call returned, and
                          \* the texts of that call
    got,                  \* the last accessor call since then, and its value
    held,                 \* what a caller kept of an earlier compare call
    heap,                 \* the result objects (result and Block list) that
                          \* the engine or the caller still refers to
    ref,                  \* the object this.diffResult refers to (0: the [])
    scan,                 \* detectModifications at work: result, the local i
    \* FileCompareApp (src/js/app.js)
    leftInput,            \* elements.leftInput.value
    rightInput,           \* elements.rightInput.value
    debounceTimer,        \* this.debounceTimer (0: null)
    timers,               \* the setTimeout timers of onTextChangeDebounced
                          \* that have not fired and were not cleared
    isProcessing,         \* this.isProcessing
    frames,               \* the requestAnimationFrame callbacks of
                          \* onTextChange not yet run: their two texts
    currentDiffIndex,     \* this.currentDiffIndex
    currentFilter,        \* this.currentFilter
    rows,                 \* the rows of the two displays: row k (data-index
                          \* k - 1) shows the pair with index rows[k]
    highlighted,          \* the data-index values of the rows with the
                          \* class current-diff
    scrolledTo,           \* the data-index the view was last scrolled to
    statusBar,            \* the texts of elements.diffCount and lineCount
    nav,                  \* the navigateDiff call that has just run
    navigated,            \* navigateDiff has run since the last comparison
    burst,                \* the input events since the debounce timer last
                          \* fired, and what onTextChange did then
    \* FolderCompare (src/js/folder-compare.js) and the folder view
    leftFolder,           \* this.leftFolder
    rightFolder,          \* this.rightFolder
    leftFiles,            \* this.leftFiles, a Map: its entries in order
    rightFiles,           \* this.rightFiles
    comparisonResult,     \* this.comparisonResult
    scans,                \* the scanFolder calls of setLeftFolder and
                          \* setRightFolder that have not returned
    resumes,              \* the pickFolder calls that go on after their
                          \* setLeftFolder or setRightFolder, in order
    folderPath,           \* the values of leftFolderPath, rightFolderPath
    folderTree,           \* the items of leftFolderTree, rightFolderTree
    compared              \* what the last compareFolders call worked on

engineVars == << leftText, rightText, leftLines, rightLines, diffResult,
                 diffBlocks, maxLinesForCharDiff, enableCharDiff, pc,
                 returned, got, held, heap, ref >>

appVars == << leftInput, rightInput, debounceTimer, timers, isProcessing,
              frames, currentDiffIndex, currentFilter, rows, highlighted,
              scrolledTo, statusBar, nav, navigated, burst >>

folderVars == << leftFolder, rightFolder, leftFiles, rightFiles,
                 comparisonResult, scans, resumes, folderPath, folderTree,
                 compared >>

\* What the calls on the engine leave alone.
aside == << scan, appVars, folderVars >>

vars == << engineVars, aside >>

NoNav == [read |-> FALSE, direction |-> 0, before |-> 0, index |-> 0,
          length |-> 0, first |-> FALSE]

NoBurst == [began |-> FALSE, coalesced |-> FALSE, runs |-> 0,
            read |-> "nothing"]

\* null, where a folder handle can be.
NoFolder == "none"

NoneCompared == [ran |-> FALSE, leftComplete |-> FALSE,
                 rightComplete |-> FALSE]

\* FileCompareApp.constructor and init, lines 7-46, with
\* FolderCompare.constructor: empty inputs, nothing displayed, nothing
\* scheduled, no folder.
AppInit ==
    /\ leftInput = << >>
    /\ rightInput = << >>
    /\ debounceTimer = 0
    /\ timers = {}
    /\ isProcessing = FALSE
    /\ frames = << >>
    /\ currentDiffIndex = -1
    /\ currentFilter = "all"
    /\ rows = << >>
    /\ highlighted = {}
    /\ scrolledTo = -1
    /\ statusBar = [diffCount |-> << "none" >>, lineCount |-> << "none" >>]
    /\ nav = NoNav
    /\ navigated = FALSE
    /\ burst = NoBurst
    /\ leftFolder = NoFolder
    /\ rightFolder = NoFolder
    /\ leftFiles = << >>
    /\ rightFiles = << >>
    /\ comparisonResult = << >>
    /\ scans = {}
    /\ resumes = << >>
    /\ folderPath = [left |-> "", right |-> ""]
    /\ folderTree = [left |-> << >>, right |-> << >>]
    /\ compared = NoneCompared

\* No detectModifications is being followed.
ScanIdle ==
    scan = [phase |-> "idle", raw |-> << >>, result |-> << >>, i |-> 0,
            prev |-> 0, steps |-> 0, retagged |-> {}, twice |-> FALSE]

\* The fields of the engine.
engine == << leftLines, rightLines, diffResult, diffBlocks,
            maxLinesForCharDiff, enableCharDiff >>

\* A Line object; charDiff is << >> while the property is not set and
\* << spans >> once it is.
Line(n, c, t) == [lineNum |-> n, content |-> c, type |-> t, charDiff |-> << >>]

\* A pair of result.pairs: positions in result.left / result.right, 0 for null.
Pair(l, r) == [left |-> l, right |-> r, merged |-> FALSE]

\* processDiff, lines 59-66: the empty result and the two running counters.
NewPairing == [left |-> << >>, right |-> << >>, pairs |-> << >>,
               leftLineNum |-> 1, rightLineNum |-> 1]

\* pushLine with the removed test lost: every part that is not an addition
\* is taken for a removal.
pushLine_NoCommon(acc, kind, line) ==
    IF kind = "added"
    THEN [acc EXCEPT
            !.right = Append(@, Line(acc.rightLineNum, line, "added")),
            !.rightLineNum = @ + 1,
            !.pairs = Append(@, Pair(0, Len(acc.right) + 1))]
    ELSE [acc EXCEPT
            !.left = Append(@, Line(acc.leftLineNum, line, "removed")),
            !.leftLineNum = @ + 1,
            !.pairs = Append(@, Pair(Len(acc.left) + 1, 0))]

\* pushLine with one counter numbering both Lines of an unchanged pair.
pushLine_OneCounter(acc, kind, line) ==
    IF kind = "added"
    THEN [acc EXCEPT
            !.right = Append(@, Line(acc.rightLineNum, line, "added")),
            !.rightLineNum = @ + 1,
            !.pairs = Append(@, Pair(0, Len(acc.right) + 1))]
    ELSE IF kind = "removed"
    THEN [acc EXCEPT
            !.left = Append(@, Line(acc.leftLineNum, line, "removed")),
            !.leftLineNum = @ + 1,
            !.pairs = Append(@, Pair(Len(acc.left) + 1, 0))]
    ELSE [acc EXCEPT
            !.left = Append(@, Line(acc.leftLineNum, line, "unchanged")),
            !.right = Append(@, Line(acc.leftLineNum, line, "unchanged")),
            !.leftLineNum = @ + 1,
            !.pairs = Append(@, Pair(Len(acc.left) + 1, Len(acc.right) + 1))]

\* processDiff, lines 75-117: one line of a part.
pushLine(acc, kind, line) ==
    IF kind = "added"
    THEN [acc EXCEPT
            !.right = Append(@, Line(acc.rightLineNum, line, "added")),
            !.rightLineNum = @ + 1,
            !.pairs = Append(@, Pair(0, Len(acc.right) + 1))]
    ELSE IF kind = "removed"
    THEN [acc EXCEPT
            !.left = Append(@, Line(acc.leftLineNum, line, "removed")),
            !.leftLineNum = @ + 1,
            !.pairs = Append(@, Pair(Len(acc.left) + 1, 0))]
    ELSE [acc EXCEPT
            !.left = Append(@, Line(acc.leftLineNum, line, "unchanged")),
            !.leftLineNum = @ + 1,
            !.right = Append(@, Line(acc.rightLineNum, line, "unchanged")),
            !.rightLineNum = @ + 1,
            !.pairs = Append(@, Pair(Len(acc.left) + 1, Len(acc.right) + 1))]

RECURSIVE pushLines(_, _, _)
pushLines(acc, kind, lines) ==
    IF lines = << >> THEN acc
    ELSE pushLines(pushLine(acc, kind, Head(lines)), kind, Tail(lines))

\* partLines that keeps the last piece, empty or not.
partLines_KeepLast(value) == SplitNewlines(value)

\* processDiff, lines 69-73: the lines of one part.
partLines(value) ==
    LET lines == SplitNewlines(value)
    IN IF Last(lines) = << >> THEN Front(lines) ELSE lines

\* processDiff, lines 68-118: the loop over the parts.
RECURSIVE pairParts(_, _)
pairParts(acc, diff) ==
    IF diff = << >> THEN acc
    ELSE pairParts(pushLines(acc, Head(diff).kind, partLines(Head(diff).value)),
                   Tail(diff))

\* processDiff, lines 59-118: the result as handed to detectModifications.
pairLines(diff) ==
    LET acc == pairParts(NewPairing, diff)
    IN [left |-> acc.left, right |-> acc.right, pairs |-> acc.pairs]

\* charParts that gives the common parts to the left side only.
RECURSIVE charParts_LeftUnchanged(_, _)
charParts_LeftUnchanged(diff, side) ==
    IF diff = << >> THEN << >>
    ELSE LET part == Head(diff)
             rest == charParts_LeftUnchanged(Tail(diff), side)
             kind == IF part.kind = "added" THEN "right"
                     ELSE "left"
         IN IF kind = side
            THEN << [text |-> part.value,
                     type |-> IF part.kind \in {"added", "removed"}
                              THEN part.kind ELSE "unchanged"] >> \o rest
            ELSE rest

\* DiffEngine.computeCharDiff
RECURSIVE charParts(_, _)
charParts(diff, side) ==
    IF diff = << >> THEN << >>
    ELSE LET part == Head(diff)
             rest == charParts(Tail(diff), side)
         IN IF part.kind = "added"
            THEN IF side = "right"
                 THEN << [text |-> part.value, type |-> "added"] >> \o rest
                 ELSE rest
            ELSE IF part.kind = "removed"
            THEN IF side = "left"
                 THEN << [text |-> part.value, type |-> "removed"] >> \o rest
                 ELSE rest
            ELSE << [text |-> part.value, type |-> "unchanged"] >> \o rest

computeCharDiff(leftLine, rightLine) ==
    LET diff == diffChars(leftLine, rightLine)
    IN [left |-> charParts(diff, "left"), right |-> charParts(diff, "right")]

IsRemovedOnly(result, i) ==
    result.pairs[i + 1].left # 0 /\ result.pairs[i + 1].right = 0

IsAddedOnly(result, i) ==
    result.pairs[i + 1].left = 0 /\ result.pairs[i + 1].right # 0

\* detectModifications, lines 144-147 and 153-156: the index after the run.
RECURSIVE runEnd(_, _, _)
runEnd(result, i, side) ==
    IF i < Len(result.pairs)
       /\ (IF side = "removed" THEN IsRemovedOnly(result, i)
                               ELSE IsAddedOnly(result, i))
    THEN runEnd(result, i + 1, side)
    ELSE i

\* mergeOne that leaves the added pair in the sequence.
mergeOne_KeepAdded(result, removedIdx, addedIdx, charDiffOn) ==
    LET l == result.pairs[removedIdx + 1].left
        r == result.pairs[addedIdx + 1].right
    IN [result EXCEPT !.left[l].type = "modified",
                      !.right[r].type = "modified",
                      !.pairs[removedIdx + 1].right = r]

\* mergeOne that retags the removed Line only.
mergeOne_HalfModified(result, removedIdx, addedIdx, charDiffOn) ==
    LET l == result.pairs[removedIdx + 1].left
        r == result.pairs[addedIdx + 1].right
    IN [result EXCEPT !.left[l].type = "modified",
                      !.pairs[removedIdx + 1].right = r,
                      !.pairs[addedIdx + 1].merged = TRUE]

\* detectModifications, lines 165-183: one aligned removed/added couple.
mergeOne(result, removedIdx, addedIdx, charDiffOn) ==
    LET l == result.pairs[removedIdx + 1].left
        r == result.pairs[addedIdx + 1].right
        typed == [result EXCEPT !.left[l].type = "modified",
                                !.right[r].type = "modified"]
        charDiff == computeCharDiff(
                        typed.left[l].content,
                        IF typed.right[r].type = "modified"
                        THEN typed.right[r].content ELSE << >>)
        diffed == IF charDiffOn
                  THEN [typed EXCEPT !.left[l].charDiff = << charDiff.left >>,
                                     !.right[r].charDiff = << charDiff.right >>]
                  ELSE typed
    IN [diffed EXCEPT !.pairs[removedIdx + 1].right = r,
                      !.pairs[addedIdx + 1].merged = TRUE]

\* mergeRuns that couples the j-th removed line with the j-th added line
\* counted back from the last aligned one.
RECURSIVE mergeRuns_Reversed(_, _, _, _, _, _)
mergeRuns_Reversed(result, removedStart, addedStart, j, minCount, charDiffOn) ==
    IF j >= minCount THEN result
    ELSE LET l == result.pairs[removedStart + j + 1].left
             r == result.pairs[addedStart + (minCount - 1 - j) + 1].right
         IN mergeRuns_Reversed(
                [result EXCEPT !.left[l].type = "modified",
                               !.right[r].type = "modified",
                               !.pairs[removedStart + j + 1].right = r,
                               !.pairs[addedStart + (minCount - 1 - j) + 1].merged = TRUE],
                removedStart, addedStart, j + 1, minCount, charDiffOn)

\* detectModifications, lines 164-184: the loop over j.
RECURSIVE mergeRuns(_, _, _, _, _, _)
mergeRuns(result, removedStart, addedStart, j, minCount, charDiffOn) ==
    IF j >= minCount THEN result
    ELSE mergeRuns(mergeOne(result, removedStart + j, addedStart + j, charDiffOn),
                   removedStart, addedStart, j + 1, minCount, charDiffOn)

\* detectModifications, lines 134-188: the scan from index i (0-based).
RECURSIVE scanPairs(_, _, _)
scanPairs(result, i, charDiffOn) ==
    IF i >= Len(result.pairs) THEN result
    ELSE LET startsRemoved ==
                 /\ IsRemovedOnly(result, i)
                 /\ result.left[result.pairs[i + 1].left].type = "removed"
             afterRemoved == IF startsRemoved THEN runEnd(result, i, "removed") ELSE i
             followedByAdded ==
                 /\ startsRemoved
                 /\ afterRemoved < Len(result.pairs)
                 /\ IsAddedOnly(result, afterRemoved)
                 /\ result.right[result.pairs[afterRemoved + 1].right].type = "added"
             afterAdded == runEnd(result, afterRemoved, "added")
             minCount == Min(afterRemoved - i, afterAdded - afterRemoved)
         IN IF followedByAdded
            THEN scanPairs(mergeRuns(result, i, afterRemoved, 0, minCount, charDiffOn),
                           afterAdded, charDiffOn)
            ELSE IF ~startsRemoved
            THEN scanPairs(result, i + 1, charDiffOn)
            ELSE scanPairs(result, afterRemoved, charDiffOn)

\* detectModifications without the filter of line 191.
detectModifications_Unfiltered(result, charDiffOn) ==
    scanPairs(result, 0, charDiffOn)

\* detectModifications whose filter keeps the pairs with a left side.
detectModifications_DropAdded(result, charDiffOn) ==
    LET scanned == scanPairs(result, 0, charDiffOn)
    IN [scanned EXCEPT !.pairs = SelectSeq(@, LAMBDA p : p.left # 0)]

\* DiffEngine.detectModifications
detectModifications(result, charDiffOn) ==
    LET scanned == scanPairs(result, 0, charDiffOn)
    IN [scanned EXCEPT !.pairs = SelectSeq(@, LAMBDA p : ~p.merged)]

\* DiffEngine.processDiff
processDiff(diff, charDiffOn) ==
    detectModifications(pairLines(diff), charDiffOn)

\* isDiff that looks at the left side only.
isDiff_LeftSide(result, pair) ==
    pair.left # 0 /\ result.left[pair.left].type # "unchanged"

\* groupDiffBlocks, lines 242-243
isDiff(result, pair) ==
    \/ pair.left # 0 /\ result.left[pair.left].type # "unchanged"
    \/ pair.right # 0 /\ result.right[pair.right].type # "unchanged"

\* groupDiffBlocks, lines 241-261: blocks closed so far and the open block
\* (<< >> for null, << block >> otherwise) after the pairs before index.
RECURSIVE groupFrom(_, _, _, _)
groupFrom(result, index, blocks, currentBlock) ==
    IF index >= Len(result.pairs)
    THEN blocks \o currentBlock
    ELSE LET pair == result.pairs[index + 1]
         IN IF isDiff(result, pair)
            THEN LET open == IF currentBlock = << >>
                             THEN [startIndex |-> index, endIndex |-> index,
                                   pairs |-> << >>]
                             ELSE currentBlock[1]
                 IN groupFrom(result, index + 1, blocks,
                              << [open EXCEPT !.endIndex = index,
                                              !.pairs = Append(@, pair)] >>)
            ELSE groupFrom(result, index + 1, blocks \o currentBlock, << >>)

\* DiffEngine.groupDiffBlocks
groupDiffBlocks(result) == groupFrom(result, 0, << >>, << >>)

\* pairCounter that asks for the left side first.
pairCounter_LeftFirst(result, pair) ==
    IF pair.left # 0 THEN "removed"
    ELSE IF pair.right # 0 THEN "added"
    ELSE "none"

\* getStats, lines 280-292: the counter a pair adds to.
pairCounter(result, pair) ==
    IF pair.left # 0 /\ pair.right # 0
    THEN IF result.left[pair.left].type = "modified" THEN "modified"
                                                     ELSE "unchanged"
    ELSE IF pair.left # 0 THEN "removed"
    ELSE IF pair.right # 0 THEN "added"
    ELSE "none"

CountPairs(result, counter) ==
    Cardinality({k \in 1..Len(result.pairs) :
                    pairCounter(result, result.pairs[k]) = counter})

\* DiffEngine.getStats
getStats ==
    [added |-> CountPairs(diffResult, "added"),
     removed |-> CountPairs(diffResult, "removed"),
     modified |-> CountPairs(diffResult, "modified"),
     unchanged |-> CountPairs(diffResult, "unchanged"),
     totalDiffs |-> Len(diffBlocks),
     leftLines |-> Len(leftLines),
     rightLines |-> Len(rightLines)]

\* constructor, line 12
DefaultMaxLinesForCharDiff == 5000

\* ------------------------------------------------------------ the inputs
Text(n) == UNION {[1..k -> Chars] : k \in 0..n}

ScenarioA == << <<"a", LF, "b", LF, "c">>, <<"a", LF, "x", LF, "c">> >>
ScenarioB == << <<"a", LF, "b">>, <<"a", LF, "b", LF, "c">> >>
ScenarioC == << <<"x", LF, "y", LF, "z">>, <<"y", LF, "z">> >>

\* Texts whose line runs share no token, so that whole runs of lines are
\* removed and added: one side ends its lines with CRLF, the other with LF.
RunTexts == { << <<"a", LF, "b">>, <<"c", CR, LF, "d">> >>,
             << <<"a", LF, "b", LF, "c">>, <<"d", CR, LF, "e">> >>,
             << <<"a", CR, LF, "b">>, <<"c", LF, "d", LF, "e">> >>,
             << <<"k", LF, "a", CR, LF, "b">>, <<"k", LF, "c">> >>,
             << <<"a", "b", CR, LF, "c">>, <<"a", "c", LF, "c", "b">> >>,
             << <<"a", LF, "k", LF, "b">>, <<"c", LF, "k">> >> }

\* A text compared with itself, CRLF terminators included.
SameTexts == {<< t, t >> : t \in UNION {[1..k -> {"a", CR, LF}] : k \in 0..MaxLen}}

\* A comparison with an absent argument.
AbsentInputs == { << Null, <<"a", LF, "b">> >>, << <<"a">>, Null >>,
                  << Null, << >> >>, << Null, Null >> }

\* "a\nb\n": a text that ends with its terminator.
TerminatedInputs == { << <<"a", LF, "b", LF>>, <<"a", LF, "b">> >>,
                      << <<"a", LF, "b", LF>>, <<"a", LF, "b", LF>> >> }

\* The same lines, ended with CRLF in one text and with LF in the other.
StyleInputs == { << <<"a", CR, LF, "b">>, <<"a", LF, "b">> >>,
                 << <<"a", LF, "b", LF>>, <<"a", CR, LF, "b", CR, LF>> >>,
                 << <<"a", CR, LF>>, <<"a", LF>> >> }

Inputs == (Text(MaxLen) \X Text(MaxLen))
          \cup {ScenarioA, ScenarioB, ScenarioC} \cup RunTexts \cup SameTexts
          \cup AbsentInputs \cup TerminatedInputs \cup StyleInputs

\* ------------------------------------------------------------- behaviour
NoneReturned == [called |-> FALSE, leftText |-> << >>, rightText |-> << >>,
                 result |-> << >>]

Addrs == 1..MaxObjects

NoObject == [live |-> FALSE, result |-> << >>, blocks |-> << >>]

\* No result object has been made.
HeapIdle ==
    /\ heap = [a \in Addrs |-> NoObject]
    /\ ref = 0

NoCall == [op |-> "none", value |-> << >>, before |-> << >>]

NoneHeld == [taken |-> FALSE, ref |-> 0, other |-> FALSE,
             replaced |-> FALSE, leftText |-> << >>,
             rightText |-> << >>, result |-> << >>, blocks |-> << >>,
             stats |-> << >>]

\* constructor, with the two texts a caller is about to compare
Init ==
    /\ \E input \in Inputs : leftText = input[1] /\ rightText = input[2]
    /\ leftLines = << >>
    /\ rightLines = << >>
    /\ diffResult = << >>
    /\ diffBlocks = << >>
    /\ maxLinesForCharDiff = DefaultMaxLinesForCharDiff
    /\ enableCharDiff = FALSE
    /\ pc = "new"
    /\ returned = NoneReturned
    /\ got = NoCall
    /\ held = NoneHeld
    /\ HeapIdle
    /\ ScanIdle
    /\ AppInit

\* A threshold test that lets every comparison through.
charDiffEnabled_Always(totalLines) == totalLines >= 0

\* compare, line 34: the second argument of processDiff.
charDiffEnabled(totalLines) == totalLines < maxLinesForCharDiff

\* compare that groups the pairs as they were before detectModifications.
compareFields_GroupRaw(l, r) ==
    LET ll == splitLines(l)
        rl == splitLines(r)
        totalLines == Len(ll) + Len(rl)
        diff == diffLines(l, r)
    IN [threw |-> tokenizeThrows(l) \/ tokenizeThrows(r),
        leftLines |-> ll, rightLines |-> rl,
        enableCharDiff |-> charDiffEnabled(totalLines),
        diffResult |-> processDiff(diff, charDiffEnabled(totalLines)),
        diffBlocks |-> groupDiffBlocks(pairLines(diff))]

\* compare that leaves character-level diffing on once a call had it on.
compareFields_StickyCharDiff(l, r) ==
    LET ll == splitLines(l)
        rl == splitLines(r)
        on == enableCharDiff \/ charDiffEnabled(Len(ll) + Len(rl))
        threw == tokenizeThrows(l) \/ tokenizeThrows(r)
        result == IF threw THEN diffResult ELSE processDiff(diffLines(l, r), on)
    IN [threw |-> threw, leftLines |-> ll, rightLines |-> rl,
        enableCharDiff |-> on, diffResult |-> result,
        diffBlocks |-> IF threw THEN diffBlocks ELSE groupDiffBlocks(result)]

\* compare, lines 22-37: the fields of the engine when the call ends.  With
\* an absent argument Diff.diffLines throws after leftLines and rightLines
\* are set, and the other fields stay as they were.
compareFields(l, r) ==
    LET ll == splitLines(l)
        rl == splitLines(r)
        totalLines == Len(ll) + Len(rl)
    IN IF tokenizeThrows(l) \/ tokenizeThrows(r)
       THEN [threw |-> TRUE, leftLines |-> ll, rightLines |-> rl,
             enableCharDiff |-> enableCharDiff, diffResult |-> diffResult,
             diffBlocks |-> diffBlocks]
       ELSE LET result == processDiff(diffLines(l, r), charDiffEnabled(totalLines))
            IN [threw |-> FALSE, leftLines |-> ll, rightLines |-> rl,
                enableCharDiff |-> charDiffEnabled(totalLines),
                diffResult |-> result,
                diffBlocks |-> groupDiffBlocks(result)]

\* A result object made where the last one is.
newObject_Reuse(current, kept) == IF current # 0 THEN current ELSE 1

\* processDiff, lines 59-63, and groupDiffBlocks, line 238: a new object is
\* at a place where no object in use is; current and kept are the places
\* of the engine's result and of the one a caller kept (0: none).
newObject(current, kept) ==
    CHOOSE a \in Addrs \ {current, kept} :
        \A b \in Addrs \ {current, kept} : a <= b

\* One call of compare(l, r) on the engine.
runCompare(l, r) ==
    \E after \in {compareFields(l, r)} :
       /\ leftLines' = after.leftLines
       /\ rightLines' = after.rightLines
       /\ enableCharDiff' = after.enableCharDiff
       /\ diffResult' = after.diffResult
       /\ diffBlocks' = after.diffBlocks
       /\ pc' = IF after.threw THEN "threw" ELSE "compared"
       /\ returned' = IF after.threw
                      THEN returned
                      ELSE [called |-> TRUE, leftText |-> l, rightText |-> r,
                            result |-> after.diffResult]
       /\ got' = NoCall
       /\ held' = IF held.taken
                  THEN [held EXCEPT
                          !.other = @ \/ << l, r >> # << held.leftText, held.rightText >>,
                          !.replaced = @ \/ ~after.threw]
                  ELSE held
       /\ IF after.threw
          THEN UNCHANGED << heap, ref >>
          ELSE \E a \in {newObject(ref, held.ref)} :
                  /\ ref' = a
                  /\ heap' = [x \in Addrs |->
                                IF x = a
                                THEN [live |-> TRUE, result |-> after.diffResult,
                                      blocks |-> after.diffBlocks]
                                ELSE IF x = held.ref THEN heap[x]
                                ELSE NoObject]
       /\ UNCHANGED maxLinesForCharDiff

\* DiffEngine.compare(leftText, rightText), the first call on the engine
compare ==
    /\ pc = "new"
    /\ runCompare(leftText, rightText)
    /\ UNCHANGED << leftText, rightText, aside >>

Next == compare

Spec == Init /\ [][Next]_vars

\* ------------------------------------------- an engine called repeatedly
\* The threshold is a field of the engine, 5000 from the constructor; an
\* engine with the threshold scaled down puts it in reach of the texts
\* compared here.
Thresholds == {SmallThreshold, DefaultMaxLinesForCharDiff}

CallInputs == { ScenarioA, ScenarioB,
                << <<"a">>, <<"b">> >>,
                << <<"a", LF, "b">>, <<"a", LF, "c">> >>,
                << <<"a", LF, "k", LF, "b">>, <<"c", LF, "k">> >>,
                << << >>, << >> >>,
                << Null, <<"a">> >> }

InitCalls ==
    /\ leftText = << >>
    /\ rightText = << >>
    /\ leftLines = << >>
    /\ rightLines = << >>
    /\ diffResult = << >>
    /\ diffBlocks = << >>
    /\ maxLinesForCharDiff \in Thresholds
    /\ enableCharDiff = FALSE
    /\ pc = "new"
    /\ returned = NoneReturned
    /\ got = NoCall
    /\ held = NoneHeld
    /\ HeapIdle
    /\ ScanIdle
    /\ AppInit

\* DiffEngine.compare, any call
compareCall ==
    \E input \in CallInputs :
        /\ leftText' = input[1]
        /\ rightText' = input[2]
        /\ runCompare(input[1], input[2])
        /\ UNCHANGED aside

\* What stays as it is over an accessor call.
accessorFrame == << leftText, rightText, leftLines, rightLines, diffResult,
                   diffBlocks, maxLinesForCharDiff, enableCharDiff, pc,
                   returned, held, heap, ref, aside >>

\* DiffEngine.getStats(), called: got keeps its value and the fields of the
\* engine as the call found them.  Before the first result, diffResult is
\* the constructor's [] and reading its pairs ends the call in a TypeError.
getStatsCall ==
    /\ returned.called
    /\ got' = [op |-> "getStats", value |-> getStats, before |-> engine]
    /\ UNCHANGED accessorFrame

\* DiffEngine.getDiffBlocks
getDiffBlocks == diffBlocks

getDiffBlocksCall ==
    /\ pc # "new"
    /\ got' = [op |-> "getDiffBlocks", value |-> getDiffBlocks, before |-> engine]
    /\ UNCHANGED accessorFrame

\* DiffEngine.getResult
getResult == diffResult

getResultCall ==
    /\ pc # "new"
    /\ got' = [op |-> "getResult", value |-> getResult, before |-> engine]
    /\ UNCHANGED accessorFrame

\* The caller keeps what the last compare call gave: the result it
\* returned, and the Blocks and Stats read after it.  held.other tells
\* that a compare call with other texts came after it, held.replaced that
\* a compare call returned after it.
keepResult ==
    /\ pc = "compared"
    /\ held' = [taken |-> TRUE, ref |-> ref, other |-> FALSE,
                replaced |-> FALSE, leftText |-> leftText,
                rightText |-> rightText, result |-> returned.result,
                blocks |-> getDiffBlocks, stats |-> getStats]
    /\ heap' = [x \in Addrs |-> IF x = ref THEN heap[x] ELSE NoObject]
    /\ UNCHANGED << leftText, rightText, leftLines, rightLines, diffResult,
                    diffBlocks, maxLinesForCharDiff, enableCharDiff, pc,
                    returned, got, ref, aside >>

NextCalls ==
    \/ compareCall
    \/ getStatsCall
    \/ getDiffBlocksCall
    \/ getResultCall
    \/ keepResult

SpecCalls == InitCalls /\ [][NextCalls]_vars

\* --------------------------------- detectModifications, one turn at a time
\* The Lines that the merge of lines 164-184 retags, as << side, position >>.
retaggedBy(result, removedStart, addedStart, minCount) ==
    {<< "left", result.pairs[removedStart + j + 1].left >> : j \in 0..(minCount - 1)}
    \cup {<< "right", result.pairs[addedStart + j + 1].right >> : j \in 0..(minCount - 1)}

\* loopBody that, after a merge, goes on at the first pair of the added run.
loopBody_ResumeAtAdded(result, i, charDiffOn) ==
    LET startsRemoved ==
            /\ IsRemovedOnly(result, i)
            /\ result.left[result.pairs[i + 1].left].type = "removed"
        afterRemoved == IF startsRemoved THEN runEnd(result, i, "removed") ELSE i
        followedByAdded ==
            /\ startsRemoved
            /\ afterRemoved < Len(result.pairs)
            /\ IsAddedOnly(result, afterRemoved)
            /\ result.right[result.pairs[afterRemoved + 1].right].type = "added"
        afterAdded == runEnd(result, afterRemoved, "added")
        minCount == Min(afterRemoved - i, afterAdded - afterRemoved)
    IN IF followedByAdded
       THEN [result |-> mergeRuns(result, i, afterRemoved, 0, minCount, charDiffOn),
             i |-> afterRemoved,
             retagged |-> retaggedBy(result, i, afterRemoved, minCount)]
       ELSE IF ~startsRemoved
       THEN [result |-> result, i |-> i + 1, retagged |-> {}]
       ELSE [result |-> result, i |-> afterRemoved, retagged |-> {}]

\* detectModifications, lines 135-187: one turn of the while loop, from
\* index i: the result and the index after it, and the Lines it retagged.
loopBody(result, i, charDiffOn) ==
    LET startsRemoved ==
            /\ IsRemovedOnly(result, i)
            /\ result.left[result.pairs[i + 1].left].type = "removed"
        afterRemoved == IF startsRemoved THEN runEnd(result, i, "removed") ELSE i
        followedByAdded ==
            /\ startsRemoved
            /\ afterRemoved < Len(result.pairs)
            /\ IsAddedOnly(result, afterRemoved)
            /\ result.right[result.pairs[afterRemoved + 1].right].type = "added"
        afterAdded == runEnd(result, afterRemoved, "added")
        minCount == Min(afterRemoved - i, afterAdded - afterRemoved)
    IN IF followedByAdded
       THEN [result |-> mergeRuns(result, i, afterRemoved, 0, minCount, charDiffOn),
             i |-> afterAdded,
             retagged |-> retaggedBy(result, i, afterRemoved, minCount)]
       ELSE IF ~startsRemoved
       THEN [result |-> result, i |-> i + 1, retagged |-> {}]
       ELSE [result |-> result, i |-> afterRemoved, retagged |-> {}]

\* The result processDiff hands over for a sequence of line kinds: removed
\* lines read a, added lines b, common lines k.
RECURSIVE pairKinds(_, _)
pairKinds(acc, kinds) ==
    IF kinds = << >> THEN [left |-> acc.left, right |-> acc.right, pairs |-> acc.pairs]
    ELSE pairKinds(pushLine(acc, Head(kinds),
                            IF Head(kinds) = "removed" THEN << "a" >>
                            ELSE IF Head(kinds) = "added" THEN << "b" >>
                            ELSE << "k" >>),
                   Tail(kinds))

KindRuns == UNION {[1..n -> {"unchanged", "removed", "added"}] : n \in 0..MaxPairs}

\* processDiff, lines 58-121: detectModifications is entered.
InitScan ==
    /\ leftText = << >>
    /\ rightText = << >>
    /\ leftLines = << >>
    /\ rightLines = << >>
    /\ diffResult = << >>
    /\ diffBlocks = << >>
    /\ maxLinesForCharDiff = DefaultMaxLinesForCharDiff
    /\ enableCharDiff \in BOOLEAN
    /\ pc = "new"
    /\ returned = NoneReturned
    /\ got = NoCall
    /\ held = NoneHeld
    /\ HeapIdle
    /\ \E kinds \in KindRuns :
          scan = [phase |-> "scanning", raw |-> pairKinds(NewPairing, kinds),
                  result |-> pairKinds(NewPairing, kinds), i |-> 0, prev |-> 0,
                  steps |-> 0, retagged |-> {}, twice |-> FALSE]
    /\ AppInit

\* detectModifications, lines 134-188: one turn of the while loop
scanIteration ==
    /\ scan.phase = "scanning"
    /\ scan.i < Len(scan.result.pairs)
    /\ \E next \in {loopBody(scan.result, scan.i, enableCharDiff)} :
          scan' = [scan EXCEPT !.result = next.result,
                               !.i = next.i,
                               !.prev = scan.i,
                               !.steps = @ + 1,
                               !.retagged = @ \cup next.retagged,
                               !.twice = @ \/ (scan.retagged \cap next.retagged # {})]
    /\ UNCHANGED << engineVars, appVars, folderVars >>

\* detectModifications, line 191: the loop is left, the merged pairs go
scanFilter ==
    /\ scan.phase = "scanning"
    /\ scan.i >= Len(scan.result.pairs)
    /\ scan' = [scan EXCEPT !.phase = "filtered",
                            !.result.pairs = SelectSeq(@, LAMBDA p : ~p.merged)]
    /\ UNCHANGED << engineVars, appVars, folderVars >>

NextScan ==
    \/ scanIteration
    \/ scanFilter

SpecScan == InitScan /\ [][NextScan]_vars

\* Followed turn by turn, detectModifications gives what it gives as a whole.
ScanAgrees ==
    scan.phase = "filtered" =>
        scan.result = detectModifications(scan.raw, enableCharDiff)

\* ------------------------------------------------------- FileCompareApp
Sides == {"left", "right"}

\* The texts the user types, drops or loads into an input: a text of three
\* lines on the left; nothing, the same text or its middle line on the
\* right.
AppTexts(side) ==
    IF side = "left"
    THEN {<< "a", LF, "k", LF, "b" >>}
    ELSE {<< >>, << "a", LF, "k", LF, "b" >>, << "k" >>}

Filters == {"all", "diff", "same"}

\* shouldShowPair, lines 799-810
shouldShowPair(result, pair, filter) ==
    LET differs == \/ pair.left = 0
                   \/ pair.right = 0
                   \/ result.left[pair.left].type # "unchanged"
                   \/ result.right[pair.right].type # "unchanged"
    IN CASE filter = "all" -> TRUE
         [] filter = "diff" -> differs
         [] filter = "same" -> ~differs
         [] OTHER -> TRUE

\* renderDiffOptimized, lines 557-589, with renderDiffDirect, lines 596-680:
\* the pairs that pass the filter, in order; the k-th of them becomes the
\* row with data-index k - 1.  A row is written here as the index of its
\* pair in result.pairs.  Without a result the displays are emptied.
renderRows(hasResult, result, filter) ==
    IF ~hasResult
    THEN << >>
    ELSE SelectSeq([k \in 1..Len(result.pairs) |-> k - 1],
                   LAMBDA index : shouldShowPair(result,
                                                 result.pairs[index + 1],
                                                 filter))

\* navigateDiff whose index stays on the last Block instead of wrapping.
nextIndex_StopAtLast(current, direction, length) ==
    IF current < 0
    THEN IF direction > 0 THEN 0 ELSE length - 1
    ELSE IF current + direction < 0 THEN length - 1
         ELSE IF current + direction >= length THEN length - 1
         ELSE current + direction

\* navigateDiff, lines 1025-1035: the index after the step.
nextIndex(current, direction, length) ==
    IF current < 0
    THEN IF direction > 0 THEN 0 ELSE length - 1
    ELSE IF current + direction < 0 THEN length - 1
         ELSE IF current + direction >= length THEN 0
         ELSE current + direction

\* onTextChange, lines 523-544, called with the inputs holding l and r: a
\* call during a comparison returns at once; otherwise the index is reset
\* and the comparison of l and r is left to the next animation frame.
onTextChange(l, r) ==
    IF isProcessing
    THEN UNCHANGED << isProcessing, currentDiffIndex, frames >>
    ELSE /\ isProcessing' = TRUE
         /\ currentDiffIndex' = -1
         /\ frames' = Append(frames, << l, r >>)

\* setTimeout gives a timer no pending timer has.
newTimer(pending) ==
    CHOOSE id \in 1..MaxTimers :
        /\ id \notin pending
        /\ \A other \in 1..MaxTimers : other \notin pending => id <= other

\* onTextChangeDebounced, lines 511-513: clearTimeout(this.debounceTimer)
pendingAfterClear(pending, timer) == pending \ {timer}

\* onTextChangeDebounced, lines 510-518
onTextChangeDebounced ==
    \E cleared \in {pendingAfterClear(timers, debounceTimer)} :
        /\ 1..MaxTimers \ cleared # {}
        /\ debounceTimer' = newTimer(cleared)
        /\ timers' = cleared \cup {newTimer(cleared)}

\* An input event on one of the two inputs (bindEvents, lines 122-124; a
\* dropped text, lines 443-444, and clearContent, lines 391-392, end the
\* same way): the input holds a new text and the comparison is debounced.
typeText ==
    \E side \in Sides :
      \E text \in AppTexts(side) :
        /\ text # (IF side = "left" THEN leftInput ELSE rightInput)
        /\ leftInput' = IF side = "left" THEN text ELSE leftInput
        /\ rightInput' = IF side = "right" THEN text ELSE rightInput
        /\ onTextChangeDebounced
        /\ burst' = IF timers = {}
                    THEN [began |-> TRUE, coalesced |-> FALSE, runs |-> 0,
                          read |-> "nothing"]
                    ELSE [burst EXCEPT !.coalesced = TRUE]
        /\ nav' = NoNav
        /\ UNCHANGED << engineVars, scan, folderVars, isProcessing, frames,
                        currentDiffIndex, currentFilter, rows, highlighted,
                        scrolledTo, statusBar, navigated >>

\* The callback of onTextChangeDebounced, lines 515-517: a pending timer
\* fires and calls onTextChange.  burst keeps how many callbacks have run
\* since the burst began and what the last one read: nothing, the texts
\* present in the inputs, or other texts.
timerFires ==
    \E id \in timers :
        /\ timers' = timers \ {id}
        /\ onTextChange(leftInput, rightInput)
        /\ burst' = [burst EXCEPT
                        !.runs = @ + 1,
                        !.read = IF frames' = frames
                                 THEN "nothing"
                                 ELSE IF frames'[Len(frames')]
                                         = << leftInput, rightInput >>
                                      THEN "present"
                                      ELSE "other"]
        /\ nav' = NoNav
        /\ UNCHANGED << engineVars, scan, folderVars, leftInput, rightInput,
                        debounceTimer, currentFilter, rows, highlighted,
                        scrolledTo, statusBar, navigated >>

\* loadFile, lines 840-860, from where file.text() has given the content:
\* the input takes it and onTextChange is called.
loadFile ==
    \E side \in Sides :
      \E content \in AppTexts(side) :
        /\ leftInput' = IF side = "left" THEN content ELSE leftInput
        /\ rightInput' = IF side = "right" THEN content ELSE rightInput
        /\ onTextChange(leftInput', rightInput')
        /\ nav' = NoNav
        /\ UNCHANGED << engineVars, scan, folderVars, debounceTimer, timers,
                        currentFilter, rows, highlighted, scrolledTo,
                        statusBar, navigated, burst >>

\* swapSides, lines 1169-1184
swapSides ==
    /\ leftInput' = rightInput
    /\ rightInput' = leftInput
    /\ onTextChange(leftInput', rightInput')
    /\ nav' = NoNav
    /\ UNCHANGED << engineVars, scan, folderVars, debounceTimer, timers, currentFilter,
                    rows, highlighted, scrolledTo, statusBar, navigated,
                    burst >>

\* The animation-frame callback of onTextChange, lines 535-543: compare on
\* the two texts onTextChange read, renderDiffOptimized, updateStats
\* (lines 828-832), and isProcessing is cleared.  A compare that throws
\* ends the callback there.
animationFrame ==
    /\ frames # << >>
    /\ leftText' = frames[1][1]
    /\ rightText' = frames[1][2]
    /\ runCompare(frames[1][1], frames[1][2])
    /\ frames' = Tail(frames)
    /\ IF pc' = "threw"
       THEN UNCHANGED << rows, highlighted, statusBar, isProcessing >>
       ELSE /\ rows' = renderRows(TRUE, diffResult', currentFilter)
            /\ highlighted' = {}
            /\ statusBar' = [diffCount |-> [kind |-> "total", position |-> 0,
                                            total |-> Len(diffBlocks')],
                             lineCount |-> [left |-> Len(leftLines'),
                                            right |-> Len(rightLines')]]
            /\ isProcessing' = FALSE
    /\ navigated' = FALSE
    /\ nav' = NoNav
    /\ UNCHANGED << scan, folderVars, leftInput, rightInput, debounceTimer,
                    timers, currentDiffIndex, currentFilter, scrolledTo,
                    burst >>

\* navigateDiff, lines 1017-1045, called by the buttons of lines 157-158
\* with -1 or 1, with scrollToLine, lines 1078-1110, and
\* highlightCurrentBlock, lines 1051-1070.  nav keeps the call: the index
\* before and after, the number of Blocks it saw, and whether it is the
\* first call since a comparison ended.
navigateDiff ==
  \E direction \in {-1, 1} :
    /\ IF Len(getDiffBlocks) = 0
       THEN /\ nav' = [read |-> FALSE, direction |-> direction,
                       before |-> currentDiffIndex,
                       index |-> currentDiffIndex, length |-> 0,
                       first |-> ~navigated]
            /\ UNCHANGED << currentDiffIndex, scrolledTo, highlighted,
                            statusBar >>
       ELSE \E index \in {nextIndex(currentDiffIndex, direction,
                                    Len(getDiffBlocks))} :
              \E block \in {getDiffBlocks[index + 1]} :
                /\ currentDiffIndex' = index
                /\ scrolledTo' = [row |-> block.startIndex,
                                  found |-> block.startIndex < Len(rows)]
                /\ highlighted' = {i \in block.startIndex..block.endIndex :
                                      i < Len(rows)}
                /\ statusBar' = [statusBar EXCEPT
                                    !.diffCount = [kind |-> "position",
                                                   position |-> index + 1,
                                                   total |-> Len(getDiffBlocks)]]
                /\ nav' = [read |-> TRUE, direction |-> direction,
                           before |-> currentDiffIndex, index |-> index,
                           length |-> Len(getDiffBlocks),
                           first |-> ~navigated]
    /\ navigated' = TRUE
    /\ UNCHANGED << engineVars, scan, folderVars, leftInput, rightInput, debounceTimer,
                    timers, isProcessing, frames, currentFilter, rows,
                    burst >>

\* highlightCurrentBlock, lines 1064-1069: two seconds after a navigateDiff
\* the highlight is taken away.
highlightExpires ==
    /\ highlighted # {}
    /\ highlighted' = {}
    /\ nav' = NoNav
    /\ UNCHANGED << engineVars, scan, folderVars, leftInput, rightInput, debounceTimer,
                    timers, isProcessing, frames, currentDiffIndex,
                    currentFilter, rows, scrolledTo, statusBar, navigated,
                    burst >>

\* setFilter, lines 416-425: the filter changes and the result is rendered
\* again.
setFilter ==
    \E filter \in Filters :
        /\ currentFilter' = filter
        /\ rows' = renderRows(pc = "compared", getResult, filter)
        /\ highlighted' = {}
        /\ nav' = NoNav
        /\ UNCHANGED << engineVars, scan, folderVars, leftInput, rightInput,
                        debounceTimer, timers, isProcessing, frames,
                        currentDiffIndex, scrolledTo, statusBar, navigated,
                        burst >>

\* The page as it opens: a new engine, the inputs empty.
InitApp ==
    /\ leftText = << >>
    /\ rightText = << >>
    /\ leftLines = << >>
    /\ rightLines = << >>
    /\ diffResult = << >>
    /\ diffBlocks = << >>
    /\ maxLinesForCharDiff = DefaultMaxLinesForCharDiff
    /\ enableCharDiff = FALSE
    /\ pc = "new"
    /\ returned = NoneReturned
    /\ got = NoCall
    /\ held = NoneHeld
    /\ HeapIdle
    /\ ScanIdle
    /\ AppInit

\* The texts of the inputs change and are compared.
NextApp ==
    \/ typeText
    \/ timerFires
    \/ loadFile
    \/ swapSides
    \/ animationFrame

SpecApp == InitApp /\ [][NextApp]_vars

\* A result is shown, filtered and walked through.
NextNav ==
    \/ loadFile
    \/ animationFrame
    \/ navigateDiff
    \/ highlightExpires
    \/ setFilter

SpecNav == InitApp /\ [][NextNav]_vars

\* -------------------------------------------------------- FolderCompare
\* The folders the user can pick, by the name of their handle.
Folders == {"src", "backup"}

File(name, size, lastModified) ==
    [name |-> name, kind |-> "file", size |-> size,
     lastModified |-> lastModified, entries |-> << >>]

\* A directory entry has no size and no date: -1 stands for undefined.
Directory(name, entries) ==
    [name |-> name, kind |-> "directory", size |-> -1, lastModified |-> -1,
     entries |-> entries]

\* handle.values(): the entries of a folder in the order the file system
\* gives them.
FolderEntries(handle) ==
    IF handle = "src"
    THEN << File("a.txt", 1, 1), Directory("lib", << File("b.txt", 2, 1) >>) >>
    ELSE << File("c.txt", 3, 1), File("a.txt", 1, 2), Directory("lib", << >>) >>

\* scanFolder, lines 69-105: the Map of a folder as its entries in
\* insertion order; a path is the sequence of the names joined by "/".
RECURSIVE scanEntries(_, _)
scanEntries(entries, path) ==
    IF entries = << >>
    THEN << >>
    ELSE LET entry == Head(entries)
             entryPath == Append(path, entry.name)
             info == [name |-> entry.name, path |-> entryPath,
                      kind |-> entry.kind, size |-> entry.size,
                      lastModified |-> entry.lastModified]
         IN (IF entry.kind = "file"
             THEN << info >>
             ELSE << info >> \o scanEntries(entry.entries, entryPath))
            \o scanEntries(Tail(entries), path)

\* FolderCompare.scanFolder(handle, '')
scanFolder(handle) == scanEntries(FolderEntries(handle), << >>)

\* Map.get: << >> for undefined, << info >> otherwise.
mapGet(files, path) == SelectSeq(files, LAMBDA info : info.path = path)

mapKeys(files) == {files[k].path : k \in 1..Len(files)}

\* The names in the order localeCompare gives them.
NameOrder == << "a.txt", "b.txt", "c.txt", "lib" >>

nameRank(name) == CHOOSE k \in 1..Len(NameOrder) : NameOrder[k] = name

\* a.localeCompare(b) < 0 on two paths.
RECURSIVE localeBefore(_, _)
localeBefore(a, b) ==
    IF a = << >> THEN b # << >>
    ELSE IF b = << >> THEN FALSE
    ELSE IF a[1] = b[1] THEN localeBefore(Tail(a), Tail(b))
    ELSE nameRank(a[1]) < nameRank(b[1])

\* compare, lines 117-127: the comparator of the sort.
sortsBefore(a, b, left, right) ==
    LET isDir(path) ==
            \/ \E k \in 1..Len(left) :
                  left[k].path = path /\ left[k].kind = "directory"
            \/ \E k \in 1..Len(right) :
                  right[k].path = path /\ right[k].kind = "directory"
    IN IF isDir(a) /\ ~isDir(b) THEN TRUE
       ELSE IF ~isDir(a) /\ isDir(b) THEN FALSE
       ELSE localeBefore(a, b)

RECURSIVE sortPaths(_, _, _)
sortPaths(paths, left, right) ==
    IF paths = {}
    THEN << >>
    ELSE LET first == CHOOSE a \in paths :
                          \A b \in paths \ {a} : sortsBefore(a, b, left, right)
         IN << first >> \o sortPaths(paths \ {first}, left, right)

\* compare, lines 133-148: the status of a path.
fileStatus(leftFile, rightFile) ==
    IF leftFile # << >> /\ rightFile # << >>
    THEN IF leftFile[1].kind = "directory" /\ rightFile[1].kind = "directory"
         THEN "same"
         ELSE IF /\ leftFile[1].size = rightFile[1].size
                 /\ leftFile[1].lastModified = rightFile[1].lastModified
              THEN "same"
              ELSE "different"
    ELSE IF leftFile # << >> THEN "only-left"
    ELSE "only-right"

\* FolderCompare.compare, lines 112-163, on the two Maps of the object.
compareFiles(left, right) ==
    LET sortedPaths == sortPaths(mapKeys(left) \cup mapKeys(right), left, right)
    IN [k \in 1..Len(sortedPaths) |->
          LET path == sortedPaths[k]
              leftFile == mapGet(left, path)
              rightFile == mapGet(right, path)
              either == IF leftFile # << >> THEN leftFile[1] ELSE rightFile[1]
          IN [path |-> path, name |-> either.name, kind |-> either.kind,
              status |-> fileStatus(leftFile, rightFile),
              left |-> leftFile, right |-> rightFile,
              depth |-> Len(path) - 1]]

\* FolderCompare.getStats, lines 169-187
folderStats(results) ==
    LET count(status) ==
            Cardinality({k \in 1..Len(results) :
                            /\ results[k].kind = "file"
                            /\ results[k].status = status})
    IN [same |-> count("same"), different |-> count("different"),
        onlyLeft |-> count("only-left"), onlyRight |-> count("only-right")]

\* renderFolderTree, lines 934-953: the items of one tree.
renderFolderTree(results, side) ==
    [k \in 1..Len(results) |->
        [path |-> results[k].path, status |-> results[k].status,
         placeholder |-> \/ side = "left" /\ results[k].status = "only-right"
                         \/ side = "right" /\ results[k].status = "only-left"]]

\* renderSingleFolderTree, lines 901-911
renderSingleFolderTree(files) ==
    [k \in 1..Len(files) |->
        [path |-> files[k].path, status |-> "pending", placeholder |-> FALSE]]

\* What the folder view leaves alone.
textView == << leftInput, rightInput, debounceTimer, timers, isProcessing,
               frames, currentDiffIndex, currentFilter, rows, highlighted,
               scrolledTo, nav, navigated, burst >>

\* pickFolder, lines 866-882, from where the picker has given a handle, up
\* to the await inside setLeftFolder or setRightFolder (folder-compare.js
\* lines 49-51, 58-60): the folder of the side is assigned and its scan
\* begins.  The user picks once the calls that were going on have gone on.
pickFolder ==
    \E side \in Sides, handle \in Folders :
        /\ resumes = << >>
        /\ [side |-> side, handle |-> handle] \notin scans
        /\ folderPath' = [folderPath EXCEPT ![side] = handle]
        /\ leftFolder' = IF side = "left" THEN handle ELSE leftFolder
        /\ rightFolder' = IF side = "right" THEN handle ELSE rightFolder
        /\ scans' = scans \cup {[side |-> side, handle |-> handle]}
        /\ UNCHANGED << engineVars, scan, textView, statusBar, leftFiles,
                        rightFiles, comparisonResult, resumes, folderTree,
                        compared >>

\* setLeftFolder, line 51, and setRightFolder, line 60: a scan returns, its
\* Map is assigned, and the pickFolder call that awaits it can go on.
scanReturns ==
    \E call \in scans :
        /\ scans' = scans \ {call}
        /\ leftFiles' = IF call.side = "left" THEN scanFolder(call.handle)
                                              ELSE leftFiles
        /\ rightFiles' = IF call.side = "right" THEN scanFolder(call.handle)
                                                ELSE rightFiles
        /\ resumes' = Append(resumes, call.side)
        /\ UNCHANGED << engineVars, scan, textView, statusBar, leftFolder,
                        rightFolder, comparisonResult, folderPath,
                        folderTree, compared >>

\* pickFolder, lines 884-889, with compareFolders, lines 916-927: with both
\* folders set the two Maps are compared and both trees rendered, otherwise
\* the tree of the side is rendered.  compared keeps whether the Maps
\* compared were the scans of the folders then selected.
pickFolderResumes ==
    /\ resumes # << >>
    /\ resumes' = Tail(resumes)
    /\ IF leftFolder # NoFolder /\ rightFolder # NoFolder
       THEN \E results \in {compareFiles(leftFiles, rightFiles)} :
              /\ comparisonResult' = results
              /\ folderTree' = [left |-> renderFolderTree(results, "left"),
                                right |-> renderFolderTree(results, "right")]
              /\ statusBar' = [diffCount |-> folderStats(results),
                               lineCount |-> folderStats(results).same]
              /\ compared' = [ran |-> TRUE,
                              leftComplete |->
                                  leftFiles = scanFolder(leftFolder),
                              rightComplete |->
                                  rightFiles = scanFolder(rightFolder)]
       ELSE /\ folderTree' =
                  [folderTree EXCEPT
                     ![Head(resumes)] =
                        renderSingleFolderTree(IF Head(resumes) = "left"
                                               THEN leftFiles
                                               ELSE rightFiles)]
            /\ UNCHANGED << comparisonResult, statusBar, compared >>
    /\ UNCHANGED << engineVars, scan, textView, leftFolder, rightFolder,
                    leftFiles, rightFiles, scans, folderPath >>

NextFolder ==
    \/ pickFolder
    \/ scanReturns
    \/ pickFolderResumes

SpecFolder == InitApp /\ [][NextFolder]_vars

\* ----------------------------------------------- vocabulary of the claims
Compared == pc = "compared"

\* The result as processDiff hands it to detectModifications.
RawResult == pairLines(diffLines(leftText, rightText))

\* The logical lines of a text: a trailing terminator opens no further line.
OriginalLines(text) ==
    LET pieces == SplitNewlines(text)
    IN IF Last(pieces) = << >> THEN Front(pieces) ELSE pieces

Max(a, b) == IF a > b THEN a ELSE b

PairsOf(res) == 1..Len(res.pairs)

BothSides(p) == p.left # 0 /\ p.right # 0
LeftOnly(p) == p.left # 0 /\ p.right = 0
RightOnly(p) == p.left = 0 /\ p.right # 0

IsUnchangedPair(res, p) ==
    /\ BothSides(p)
    /\ res.left[p.left].type = "unchanged"
    /\ res.right[p.right].type = "unchanged"
    /\ res.left[p.left].content = res.right[p.right].content

IsModifiedPair(res, p) ==
    /\ BothSides(p)
    /\ res.left[p.left].type = "modified"
    /\ res.right[p.right].type = "modified"

IsRemovedPair(res, p) == LeftOnly(p) /\ res.left[p.left].type = "removed"

IsAddedPair(res, p) == RightOnly(p) /\ res.right[p.right].type = "added"

\* One side of a pair as << >> (absent) or << content, type >>.
SideView(lines, k) ==
    IF k = 0 THEN << >> ELSE << lines[k].content, lines[k].type >>

PairView(res) ==
    [k \in PairsOf(res) |->
        << SideView(res.left, res.pairs[k].left),
           SideView(res.right, res.pairs[k].right) >>]

Present(c, t) == << c, t >>
Absent == << >>

LeftProjection(res) ==
    LET kept == SelectSeq(res.pairs, LAMBDA p : p.left # 0)
    IN [k \in 1..Len(kept) |-> res.left[kept[k].left].content]

RightProjection(res) ==
    LET kept == SelectSeq(res.pairs, LAMBDA p : p.right # 0)
    IN [k \in 1..Len(kept) |-> res.right[kept[k].right].content]

\* The length of the longest run of pairs from position s on (1-based) that
\* are all left-only (side = "removed") or all right-only (side = "added").
RunLength(res, s, side) ==
    LET In(k) == IF side = "removed" THEN LeftOnly(res.pairs[k])
                                     ELSE RightOnly(res.pairs[k])
    IN CHOOSE n \in 0..(Len(res.pairs) - s + 1) :
           /\ \A k \in s..(s + n - 1) : In(k)
           /\ s + n > Len(res.pairs) \/ ~In(s + n)

\* The positions where a maximal run of removed-only pairs starts.
RemovedRunStarts(res) ==
    {s \in PairsOf(res) :
        LeftOnly(res.pairs[s]) /\ (s = 1 \/ ~LeftOnly(res.pairs[s - 1]))}

\* The positions where a maximal run of added-only pairs starts that no
\* removed-only pair precedes.
LoneAddedRunStarts(res) ==
    {s \in PairsOf(res) :
        RightOnly(res.pairs[s]) /\ (s = 1 \/ BothSides(res.pairs[s - 1]))}

\* The raw pairs before position k that are no longer in the final sequence.
DroppedBefore(raw, final, k) ==
    Cardinality({i \in 1..(k - 1) :
        /\ RightOnly(raw.pairs[i])
        /\ ~\E q \in PairsOf(final) :
              RightOnly(final.pairs[q])
              /\ final.pairs[q].right = raw.pairs[i].right})

\* ------------------------------------------------------------------ claims

\* C1: projecting the left sides of the pairs returned by compare, in
\* order and dropping absent sides, reproduces the original left line
\* sequence, and projecting the right sides the original right line
\* sequence (the lines of the text, or the engine's own leftLines/rightLines).
C1_Reconstruction ==
    Compared =>
        /\ LeftProjection(diffResult) \in {OriginalLines(leftText), leftLines}
        /\ RightProjection(diffResult) \in {OriginalLines(rightText), rightLines}

\* C2: Scenario A, compare("a\nb\nc", "a\nx\nc"), returns exactly the three
\* pairs (a,a) Unchanged, (b,x) Modified, (c,c) Unchanged, and one Block with
\* startIndex = endIndex = 1.
C2_ScenarioA ==
    (Compared /\ << leftText, rightText >> = ScenarioA) =>
        /\ PairView(diffResult) =
              << << Present(<<"a">>, "unchanged"), Present(<<"a">>, "unchanged") >>,
                 << Present(<<"b">>, "modified"), Present(<<"x">>, "modified") >>,
                 << Present(<<"c">>, "unchanged"), Present(<<"c">>, "unchanged") >> >>
        /\ Len(diffBlocks) = 1
        /\ diffBlocks[1].startIndex = 1
        /\ diffBlocks[1].endIndex = 1

\* C3: Scenario B, compare("a\nb", "a\nb\nc"), returns exactly the pairs
\* (a,a) Unchanged, (b,b) Unchanged, (absent,c) Added, one Block spanning
\* only the last index, and stats added=1, removed=0, modified=0, unchanged=2.
C3_ScenarioB ==
    (Compared /\ << leftText, rightText >> = ScenarioB) =>
        /\ PairView(diffResult) =
              << << Present(<<"a">>, "unchanged"), Present(<<"a">>, "unchanged") >>,
                 << Present(<<"b">>, "unchanged"), Present(<<"b">>, "unchanged") >>,
                 << Absent, Present(<<"c">>, "added") >> >>
        /\ Len(diffBlocks) = 1
        /\ diffBlocks[1].startIndex = 2
        /\ diffBlocks[1].endIndex = 2
        /\ getStats.added = 1
        /\ getStats.removed = 0
        /\ getStats.modified = 0
        /\ getStats.unchanged = 2

\* C4: compare(X, X) returns pairs that all have both sides present, both
\* Unchanged, with identical content, and there are no Blocks.
C4_Identity ==
    (Compared /\ leftText = rightText) =>
        /\ \A k \in PairsOf(diffResult) :
              IsUnchangedPair(diffResult, diffResult.pairs[k])
        /\ diffBlocks = << >>

C4_Witness ==
    /\ Compared
    /\ leftText = rightText
    /\ Len(diffResult.pairs) >= 2
    /\ \E k \in 1..Len(leftText) : leftText[k] = CR
    /\ \A k \in PairsOf(diffResult) :
          IsUnchangedPair(diffResult, diffResult.pairs[k])

\* C5: a run of R removed-only pairs immediately followed by A added-only
\* pairs is replaced by exactly min(R, A) Modified pairs, immediately
\* followed by the |R - A| leftover pairs, which stay pure Removed (R > A) or
\* pure Added (A > R); what followed the two runs follows the leftovers.
C5_MergeCardinality ==
    Compared =>
      LET raw == RawResult
      IN \A s \in RemovedRunStarts(raw) :
            LET R == RunLength(raw, s, "removed")
                A == IF s + R > Len(raw.pairs) THEN 0
                     ELSE RunLength(raw, s + R, "added")
                lo == Min(R, A)
                hi == Max(R, A)
            IN A > 0 =>
                 \E p \in PairsOf(diffResult) :
                    /\ diffResult.pairs[p].left = raw.pairs[s].left
                    /\ p + hi - 1 <= Len(diffResult.pairs)
                    /\ \A j \in 0..(lo - 1) :
                          IsModifiedPair(diffResult, diffResult.pairs[p + j])
                    /\ \A j \in lo..(hi - 1) :
                          IF R > A
                          THEN IsRemovedPair(diffResult, diffResult.pairs[p + j])
                          ELSE IsAddedPair(diffResult, diffResult.pairs[p + j])
                    /\ IF s + R + A > Len(raw.pairs)
                       THEN Len(diffResult.pairs) = p + hi - 1
                       ELSE /\ p + hi <= Len(diffResult.pairs)
                            /\ diffResult.pairs[p + hi].left
                                  = raw.pairs[s + R + A].left

C5_Witness ==
    /\ Compared
    /\ \E s \in RemovedRunStarts(RawResult) :
          LET R == RunLength(RawResult, s, "removed")
              A == IF s + R > Len(RawResult.pairs) THEN 0
                   ELSE RunLength(RawResult, s + R, "added")
          IN R >= 2 /\ A >= 2 /\ R # A

\* C6: in a removed run followed by an added run, the j-th Modified pair
\* (j < min(R, A)) has the j-th line of the removed run on the left and the
\* j-th line of the added run on the right, both retagged Modified and with
\* their content as before; the added line has no standalone pair left, so
\* each merged line is in exactly one pair of the final sequence.
C6_MergeAlignment ==
    Compared =>
      LET raw == RawResult
      IN \A s \in RemovedRunStarts(raw) :
            LET R == RunLength(raw, s, "removed")
                A == IF s + R > Len(raw.pairs) THEN 0
                     ELSE RunLength(raw, s + R, "added")
            IN \A j \in 0..(Min(R, A) - 1) :
                 LET l == raw.pairs[s + j].left
                     r == raw.pairs[s + R + j].right
                 IN /\ \E p \in PairsOf(diffResult) :
                          /\ diffResult.pairs[p].left = l
                          /\ diffResult.pairs[p].right = r
                    /\ diffResult.left[l].type = "modified"
                    /\ diffResult.right[r].type = "modified"
                    /\ diffResult.left[l].content = raw.left[l].content
                    /\ diffResult.right[r].content = raw.right[r].content
                    /\ Cardinality({p \in PairsOf(diffResult) :
                                       diffResult.pairs[p].left = l}) = 1
                    /\ Cardinality({p \in PairsOf(diffResult) :
                                       diffResult.pairs[p].right = r}) = 1

C6_Witness ==
    /\ Compared
    /\ \E s \in RemovedRunStarts(RawResult) :
          LET R == RunLength(RawResult, s, "removed")
              A == IF s + R > Len(RawResult.pairs) THEN 0
                   ELSE RunLength(RawResult, s + R, "added")
          IN /\ Min(R, A) >= 2
             /\ \E p \in PairsOf(diffResult) :
                   /\ diffResult.pairs[p].left = RawResult.pairs[s + 1].left
                   /\ diffResult.pairs[p].right = RawResult.pairs[s + R + 1].right

\* C7: a removed run that no added run follows, and an added run that no
\* removed run precedes, come out of modification detection as they went
\* in: each pair one-sided, of kind Removed/Added, at its place among the
\* pairs that are kept.  compare("x\ny\nz", "y\nz") gives (x, absent)
\* Removed and then two Unchanged pairs.
C7_LoneRunsUntouched ==
    Compared =>
        LET raw == RawResult
            KeptAt(k) == k - DroppedBefore(raw, diffResult, k)
            Same(k) == /\ KeptAt(k) \in PairsOf(diffResult)
                       /\ diffResult.pairs[KeptAt(k)].left = raw.pairs[k].left
                       /\ diffResult.pairs[KeptAt(k)].right = raw.pairs[k].right
        IN /\ \A s \in RemovedRunStarts(raw) :
                 LET R == RunLength(raw, s, "removed")
                 IN (s + R > Len(raw.pairs) \/ ~RightOnly(raw.pairs[s + R])) =>
                       \A k \in s..(s + R - 1) :
                           /\ Same(k)
                           /\ IsRemovedPair(diffResult, diffResult.pairs[KeptAt(k)])
           /\ \A s \in LoneAddedRunStarts(raw) :
                 \A k \in s..(s + RunLength(raw, s, "added") - 1) :
                     /\ Same(k)
                     /\ IsAddedPair(diffResult, diffResult.pairs[KeptAt(k)])
           /\ << leftText, rightText >> = ScenarioC =>
                 PairView(diffResult) =
                    << << Present(<<"x">>, "removed"), Absent >>,
                       << Present(<<"y">>, "unchanged"), Present(<<"y">>, "unchanged") >>,
                       << Present(<<"z">>, "unchanged"), Present(<<"z">>, "unchanged") >> >>

\* A lone removed run behind a merged one: its place has moved up.
C7_Witness ==
    /\ Compared
    /\ \E s \in RemovedRunStarts(RawResult) :
          LET R == RunLength(RawResult, s, "removed")
          IN /\ s + R > Len(RawResult.pairs) \/ ~RightOnly(RawResult.pairs[s + R])
             /\ DroppedBefore(RawResult, diffResult, s) > 0
             /\ IsRemovedPair(diffResult,
                   diffResult.pairs[s - DroppedBefore(RawResult, diffResult, s)])

\* C8: the lineNum values of the left Lines, in creation order, are
\* 1, 2, ..., N, likewise on the right, and modification merging renumbers
\* no Line.
C8_LineNumbering ==
    Compared =>
        LET raw == RawResult
        IN /\ \A k \in 1..Len(diffResult.left) : diffResult.left[k].lineNum = k
           /\ \A k \in 1..Len(diffResult.right) : diffResult.right[k].lineNum = k
           /\ Len(diffResult.left) = Len(raw.left)
           /\ Len(diffResult.right) = Len(raw.right)
           /\ \A k \in 1..Len(diffResult.left) :
                 diffResult.left[k].lineNum = raw.left[k].lineNum
           /\ \A k \in 1..Len(diffResult.right) :
                 diffResult.right[k].lineNum = raw.right[k].lineNum

C8_Witness ==
    /\ Compared
    /\ Len(diffResult.left) >= 3
    /\ Len(diffResult.right) >= 2
    /\ Len(diffResult.left) # Len(diffResult.right)
    /\ \E k \in PairsOf(diffResult) : IsModifiedPair(diffResult, diffResult.pairs[k])
    /\ \E k \in PairsOf(diffResult) : IsUnchangedPair(diffResult, diffResult.pairs[k])

\* C9: every pair has a side present; both present and neither Modified:
\* both Unchanged with identical content; both present and one Modified:
\* the other Modified too; one-sided: Removed (left only) or Added (right only).
C9_PairInvariant ==
    Compared =>
        \A k \in PairsOf(diffResult) :
            LET p == diffResult.pairs[k]
            IN /\ p.left # 0 \/ p.right # 0
               /\ BothSides(p) =>
                     \/ IsUnchangedPair(diffResult, p)
                     \/ IsModifiedPair(diffResult, p)
               /\ LeftOnly(p) => diffResult.left[p.left].type = "removed"
               /\ RightOnly(p) => diffResult.right[p.right].type = "added"

C9_Witness ==
    /\ Compared
    /\ \E k \in PairsOf(diffResult) : IsModifiedPair(diffResult, diffResult.pairs[k])
    /\ \E k \in PairsOf(diffResult) : IsUnchangedPair(diffResult, diffResult.pairs[k])
    /\ \E k \in PairsOf(diffResult) : IsRemovedPair(diffResult, diffResult.pairs[k])

\* A pair is a diff pair if a present side has a kind other than Unchanged,
\* or exactly one side is present.
IsDiffPair(res, p) ==
    \/ p.left # 0 /\ res.left[p.left].type # "unchanged"
    \/ p.right # 0 /\ res.right[p.right].type # "unchanged"
    \/ LeftOnly(p)
    \/ RightOnly(p)

\* C10: no two Blocks are adjacent or overlapping, every pair inside a
\* Block is a diff pair, every diff pair of the final sequence lies in
\* exactly one Block, and the pairs just before startIndex and just after
\* endIndex are fully Unchanged.
C10_BlockMaximality ==
    Compared =>
        LET n == Len(diffResult.pairs)
            Pair0(i) == diffResult.pairs[i + 1]
        IN /\ \A b \in 1..Len(diffBlocks) :
                 LET blk == diffBlocks[b]
                 IN /\ 0 <= blk.startIndex
                    /\ blk.startIndex <= blk.endIndex
                    /\ blk.endIndex < n
                    /\ \A i \in blk.startIndex..blk.endIndex :
                          IsDiffPair(diffResult, Pair0(i))
                    /\ \A i \in 1..Len(blk.pairs) :
                          IsDiffPair(diffResult, blk.pairs[i])
                    /\ blk.startIndex > 0 =>
                          IsUnchangedPair(diffResult, Pair0(blk.startIndex - 1))
                    /\ blk.endIndex < n - 1 =>
                          IsUnchangedPair(diffResult, Pair0(blk.endIndex + 1))
           /\ \A b \in 1..(Len(diffBlocks) - 1) :
                 diffBlocks[b + 1].startIndex > diffBlocks[b].endIndex + 1
           /\ \A i \in 0..(n - 1) :
                 IsDiffPair(diffResult, Pair0(i)) =>
                    Cardinality({b \in 1..Len(diffBlocks) :
                                    /\ diffBlocks[b].startIndex <= i
                                    /\ i <= diffBlocks[b].endIndex}) = 1

C10_Witness ==
    /\ Compared
    /\ Len(diffBlocks) >= 2
    /\ \E b \in 1..Len(diffBlocks) : diffBlocks[b].endIndex > diffBlocks[b].startIndex

\* C11: the Block indices refer to the final pair sequence that compare
\* returns: for every Block 0 <= startIndex <= endIndex < pairs.length, the
\* Block's pairs are pairs[startIndex..endIndex] element for element, and the
\* Blocks are listed in strictly ascending index order.
C11_BlockIndices ==
    Compared =>
        LET n == Len(diffResult.pairs)
        IN /\ \A b \in 1..Len(diffBlocks) :
                 LET blk == diffBlocks[b]
                 IN /\ 0 <= blk.startIndex
                    /\ blk.startIndex <= blk.endIndex
                    /\ blk.endIndex < n
                    /\ Len(blk.pairs) = blk.endIndex - blk.startIndex + 1
                    /\ \A i \in 1..Len(blk.pairs) :
                          blk.pairs[i] = diffResult.pairs[blk.startIndex + i]
           /\ \A b \in 1..(Len(diffBlocks) - 1) :
                 /\ diffBlocks[b].startIndex < diffBlocks[b + 1].startIndex
                 /\ diffBlocks[b].endIndex < diffBlocks[b + 1].startIndex

\* A merge has shortened the sequence before a later Block, and a Block
\* spans more than one pair.
C11_Witness ==
    /\ Compared
    /\ Len(RawResult.pairs) > Len(diffResult.pairs)
    /\ Len(diffBlocks) >= 2
    /\ \E b \in 1..Len(diffBlocks) : Len(diffBlocks[b].pairs) >= 2

\* The number of pairs of a result that satisfy a description.
PairsWith(res, kind) ==
    Cardinality({k \in PairsOf(res) :
        LET p == res.pairs[k]
        IN CASE kind = "rightOnly" -> RightOnly(p)
             [] kind = "leftOnly" -> LeftOnly(p)
             [] kind = "leftModified" ->
                    p.left # 0 /\ res.left[p.left].type = "modified"
             [] kind = "bothUnchanged" ->
                    /\ BothSides(p)
                    /\ res.left[p.left].type = "unchanged"
                    /\ res.right[p.right].type = "unchanged"})

\* C12: the Stats that getStats returns are a projection of the pairs:
\* added counts the pairs with only the right side, removed those with only
\* the left side, modified those whose left kind is Modified, unchanged
\* those with both sides present and Unchanged, totalDiffs the Blocks; the
\* four counts add up to the number of pairs; the call changes no field of
\* the engine.
C12_StatsProjection ==
    got.op = "getStats" =>
        /\ got.value.added = PairsWith(diffResult, "rightOnly")
        /\ got.value.removed = PairsWith(diffResult, "leftOnly")
        /\ got.value.modified = PairsWith(diffResult, "leftModified")
        /\ got.value.unchanged = PairsWith(diffResult, "bothUnchanged")
        /\ got.value.totalDiffs = Len(diffBlocks)
        /\ got.value.added + got.value.removed + got.value.modified
              + got.value.unchanged = Len(diffResult.pairs)
        /\ got.before = engine

C12_Witness ==
    /\ got.op = "getStats"
    /\ got.value.modified >= 1
    /\ got.value.unchanged >= 1
    /\ got.value.removed >= 1
    /\ got.value.totalDiffs >= 2

\* C13: getStats().leftLines is the number of lines of the left text, which
\* is the number of Lines on the left side of the result (removed + modified
\* + unchanged), and rightLines is the number of Lines on the right side
\* (added + modified + unchanged).
C13_PerSideTotals ==
    Compared =>
        LET stats == getStats
        IN /\ stats.leftLines = Len(OriginalLines(leftText))
           /\ stats.leftLines = Len(diffResult.left)
           /\ stats.leftLines = stats.removed + stats.modified + stats.unchanged
           /\ stats.rightLines = Len(OriginalLines(rightText))
           /\ stats.rightLines = Len(diffResult.right)
           /\ stats.rightLines = stats.added + stats.modified + stats.unchanged

\* The logical lines of an argument of compare, absent or a text.
LogicalLines(text) == IF text = Null THEN << >> ELSE OriginalLines(text)

\* C14: splitLines returns one element per logical line, without the empty
\* piece after a trailing terminator ("a\nb\n" gives a, b), nothing for the
\* empty or an absent text, and it keeps the empty lines inside the text.
C14_SplitLines ==
    pc # "new" =>
        /\ leftLines = LogicalLines(leftText)
        /\ rightLines = LogicalLines(rightText)

HasCharDiff(line) == line.charDiff # << >>

\* Every Modified pair of the result has charDiff on both of its Lines.
AllModifiedCharDiffed(res) ==
    \A k \in PairsOf(res) :
        IsModifiedPair(res, res.pairs[k]) =>
            /\ HasCharDiff(res.left[res.pairs[k].left])
            /\ HasCharDiff(res.right[res.pairs[k].right])

\* No Line of the result has charDiff.
NoneCharDiffed(res) ==
    /\ \A n \in 1..Len(res.left) : ~HasCharDiff(res.left[n])
    /\ \A n \in 1..Len(res.right) : ~HasCharDiff(res.right[n])

\* C15: with a combined line count below the threshold every Modified pair
\* of the result has charDiff on both sides; with one above the threshold no
\* Line of the result has charDiff; and no result has charDiff on some
\* Modified lines but not on others.
C15_CharDiffThreshold ==
    Compared =>
        LET totalLines == Len(leftLines) + Len(rightLines)
        IN /\ totalLines < maxLinesForCharDiff => AllModifiedCharDiffed(diffResult)
           /\ totalLines > maxLinesForCharDiff => NoneCharDiffed(diffResult)
           /\ AllModifiedCharDiffed(diffResult) \/ NoneCharDiffed(diffResult)

\* A comparison above the threshold with a Modified pair, on an engine whose
\* earlier comparison, below the threshold, gave a charDiff.
C15_Witness ==
    /\ Compared
    /\ Len(leftLines) + Len(rightLines) > maxLinesForCharDiff
    /\ \E k \in PairsOf(diffResult) : IsModifiedPair(diffResult, diffResult.pairs[k])
    /\ held.taken
    /\ \E n \in 1..Len(held.result.left) : HasCharDiff(held.result.left[n])

\* The text of the spans of a charDiff, in order.
SpanText(spans) == Flatten([k \in 1..Len(spans) |-> spans[k].text])

SpanTypes(spans) == {spans[k].type : k \in 1..Len(spans)}

\* C16: for every Modified pair with charDiff, the texts of the left Line's
\* spans, in order, make up the left Line's content and those of the right
\* Line's spans the right Line's content; the left spans are Unchanged or
\* Removed only and the right spans Unchanged or Added only.
C16_CharSpanRoundTrip ==
    Compared =>
        \A k \in PairsOf(diffResult) :
            LET p == diffResult.pairs[k]
            IN IsModifiedPair(diffResult, p) =>
                  LET l == diffResult.left[p.left]
                      r == diffResult.right[p.right]
                  IN /\ HasCharDiff(l) =>
                           /\ SpanText(l.charDiff[1]) = l.content
                           /\ SpanTypes(l.charDiff[1]) \subseteq {"unchanged", "removed"}
                     /\ HasCharDiff(r) =>
                           /\ SpanText(r.charDiff[1]) = r.content
                           /\ SpanTypes(r.charDiff[1]) \subseteq {"unchanged", "added"}

\* A Modified pair whose two lines share a part and differ in another.
C16_Witness ==
    /\ Compared
    /\ \E k \in PairsOf(diffResult) :
          LET p == diffResult.pairs[k]
          IN /\ IsModifiedPair(diffResult, p)
             /\ HasCharDiff(diffResult.left[p.left])
             /\ HasCharDiff(diffResult.right[p.right])
             /\ SpanTypes(diffResult.left[p.left].charDiff[1])
                   = {"unchanged", "removed"}
             /\ SpanTypes(diffResult.right[p.right].charDiff[1])
                   = {"unchanged", "added"}

\* C17: a compare call with the texts of an earlier call on the same
\* engine, whatever was called in between, gives the result of the earlier
\* call (pairs, kinds, contents, line numbers, charDiff), its Blocks and
\* its Stats.
C17_Determinism ==
    (Compared /\ held.taken
        /\ held.leftText = leftText /\ held.rightText = rightText) =>
        /\ returned.result = held.result
        /\ getResult = held.result
        /\ getDiffBlocks = held.blocks
        /\ getStats = held.stats

\* The texts of a kept result are compared again after other texts were,
\* and the result has a Modified pair and a Block.
C17_Witness ==
    /\ Compared
    /\ held.taken
    /\ held.other
    /\ held.leftText = leftText
    /\ held.rightText = rightText
    /\ \E k \in PairsOf(diffResult) : IsModifiedPair(diffResult, diffResult.pairs[k])
    /\ Len(diffBlocks) >= 1

\* The Stats derived from a result and the two texts it was computed from.
StatsOf(res, left, right) ==
    [added |-> PairsWith(res, "rightOnly"),
     removed |-> PairsWith(res, "leftOnly"),
     modified |-> PairsWith(res, "leftModified"),
     unchanged |-> PairsWith(res, "bothUnchanged"),
     totalDiffs |-> Len(groupDiffBlocks(res)),
     leftLines |-> Len(splitLines(left)),
     rightLines |-> Len(splitLines(right))]

\* C18: after any sequence of compare calls getResult returns the result
\* of the most recent compare call, getDiffBlocks the Blocks of that result
\* and getStats the counts derived from that result and its texts: the
\* three never show a mix of two calls.
C18_MostRecent ==
    /\ got.op = "getResult" /\ returned.called =>
          got.value = returned.result
    /\ got.op = "getDiffBlocks" /\ returned.called =>
          got.value = groupDiffBlocks(returned.result)
    /\ got.op = "getStats" =>
          got.value = StatsOf(returned.result, returned.leftText, returned.rightText)

\* An argument of compare as the text the claim takes it for.
AsText(text) == IF text = Null THEN << >> ELSE text

\* C19: compare with an absent left or right text ends as the call with the
\* empty text in its place does: it returns, and with the same result.
C19_AbsentAsEmpty ==
    (pc # "new" /\ (leftText = Null \/ rightText = Null)) =>
        /\ pc = "compared"
        /\ diffResult = compareFields(AsText(leftText), AsText(rightText)).diffResult

\* C20: comparing the empty text with the empty text gives a result with
\* no pairs, no Lines on either side, and no Blocks.
C20_EmptyInputs ==
    (Compared /\ leftText = << >> /\ rightText = << >>) =>
        /\ diffResult.pairs = << >>
        /\ diffResult.left = << >>
        /\ diffResult.right = << >>
        /\ diffBlocks = << >>

C20_Witness ==
    /\ Compared
    /\ returned.called
    /\ leftText = << >>
    /\ rightText = << >>
    /\ diffResult.pairs = << >>

\* The Lines of one side that the pairs refer to, in pair order.
SideProjection(res, side) ==
    LET kept == SelectSeq(res.pairs, LAMBDA p : IF side = "left" THEN p.left # 0
                                                                 ELSE p.right # 0)
    IN [k \in 1..Len(kept) |-> IF side = "left" THEN kept[k].left
                                                ELSE kept[k].right]

\* C22: in every result the left sequence is the projection of the present
\* left sides of the pairs in pair order (the same Lines in the same order)
\* and the right sequence that of the present right sides, also after a
\* merge of a removed run and an added run of different lengths.
C22_SideProjection ==
    Compared =>
        /\ SideProjection(diffResult, "left") = [n \in 1..Len(diffResult.left) |-> n]
        /\ SideProjection(diffResult, "right") = [n \in 1..Len(diffResult.right) |-> n]

\* A merge of a removed run with an added run of another length.
C22_Witness ==
    /\ Compared
    /\ \E k \in PairsOf(diffResult) : IsModifiedPair(diffResult, diffResult.pairs[k])
    /\ \E s \in RemovedRunStarts(RawResult) :
          LET R == RunLength(RawResult, s, "removed")
              A == IF s + R > Len(RawResult.pairs) THEN 0
                   ELSE RunLength(RawResult, s + R, "added")
          IN A >= 1 /\ R # A

\* A text with every CRLF written as LF.
RECURSIVE LFOnly(_)
LFOnly(text) ==
    IF Len(text) < 2 THEN text
    ELSE IF text[1] = CR /\ text[2] = LF THEN LFOnly(Tail(text))
    ELSE << text[1] >> \o LFOnly(Tail(text))

\* C23: two texts with the same line contents, one ending its lines with
\* CRLF and the other with LF, compare as Unchanged pairs only, one per
\* line, with no Block: no pair stands for a terminator.
C23_TerminatorStyle ==
    (Compared /\ LFOnly(leftText) = LFOnly(rightText)) =>
        /\ \A k \in PairsOf(diffResult) :
               IsUnchangedPair(diffResult, diffResult.pairs[k])
        /\ Len(diffResult.pairs) = Len(OriginalLines(leftText))
        /\ diffBlocks = << >>

\* Where the scan goes on after the turn that started at index p (0-based) of
\* the pairs as they were handed over: behind the removed run that starts
\* there and the added run that follows it, or at the next pair.
ResumeAfter(raw, p) ==
    IF LeftOnly(raw.pairs[p + 1])
    THEN LET R == RunLength(raw, p + 1, "removed")
             A == IF p + R + 1 > Len(raw.pairs) THEN 0
                  ELSE RunLength(raw, p + R + 1, "added")
         IN p + R + A
    ELSE p + 1

\* C24: detectModifications is one forward pass that ends on every pair
\* sequence: the scan index only grows (so there are at most as many turns
\* as pairs), after a removed run, merged with a following added run or
\* not, the scan goes on at the first pair behind the consumed runs, and no
\* Line is retagged more than once.
C24_ForwardScan ==
    scan.phase # "idle" =>
        /\ scan.i <= Len(scan.raw.pairs)
        /\ scan.steps <= scan.i
        /\ scan.steps > 0 =>
              /\ scan.i > scan.prev
              /\ scan.i = ResumeAfter(scan.raw, scan.prev)
        /\ ~scan.twice
        /\ scan.phase = "filtered" => scan.i = Len(scan.raw.pairs)

\* A finished scan that merged a run, passed a removed run with no added
\* run behind it, and took three turns or more.
C24_Witness ==
    /\ scan.phase = "filtered"
    /\ scan.retagged # {}
    /\ scan.steps >= 3
    /\ \E k \in PairsOf(scan.result) : IsRemovedPair(scan.result, scan.result.pairs[k])

\* The engine's result and Blocks are the object it refers to.
HeapAgrees ==
    ref # 0 => heap[ref] = [live |-> TRUE, result |-> diffResult,
                            blocks |-> diffBlocks]

\* C21: every compare call that returns has made new objects and put them
\* in the place of the stored result; the result and the Blocks a caller
\* got from an earlier call stay as they were (kinds, charDiff, pairs and
\* their order), whatever is compared later.
C21_FreshResults ==
    /\ held.taken =>
          /\ heap[held.ref] = [live |-> TRUE, result |-> held.result,
                               blocks |-> held.blocks]
          /\ held.replaced => ref # held.ref
    /\ HeapAgrees

\* A kept result with a Modified pair and a charDiff, and another result,
\* of other texts, in the engine.
C21_Witness ==
    /\ Compared
    /\ held.taken
    /\ held.replaced
    /\ << leftText, rightText >> # << held.leftText, held.rightText >>
    /\ \E n \in 1..Len(held.result.left) : HasCharDiff(held.result.left[n])
    /\ \E k \in PairsOf(diffResult) : IsModifiedPair(diffResult, diffResult.pairs[k])


\* Nothing is scheduled any more: no debounce timer is pending and no
\* animation-frame callback is waiting.
Quiescent == timers = {} /\ frames = << >>

\* An input has been changed since the page opened.
InputsTouched == pc # "new" \/ leftInput # << >> \/ rightInput # << >>

\* C25: no change is lost.  Once the changes have stopped and nothing is
\* scheduled any more, the last comparison the engine ran is the comparison
\* of the texts now in the two inputs, also when a change arrived while
\* isProcessing was true.
C25_NoChangeLost ==
    (Quiescent /\ InputsTouched) =>
        /\ pc = "compared"
        /\ leftText = leftInput
        /\ rightText = rightInput


\* navigateDiff has just run, and the Block list it saw was not empty.
Navigated == nav.read

\* navigateDiff has just run on an empty Block list.
NavigatedNowhere == nav.direction # 0 /\ ~nav.read

\* C26: whenever navigateDiff reads blocks[currentDiffIndex], the index is
\* within the current Block list, whatever comparisons and navigations came
\* before; next from the last Block goes to the first, previous from the
\* first goes to the last; with zero Blocks navigateDiff leaves
\* currentDiffIndex as it was.
C26_NavigationIndex ==
    /\ Navigated =>
          /\ nav.length = Len(diffBlocks)
          /\ nav.index \in 0..(nav.length - 1)
          /\ currentDiffIndex = nav.index
          /\ (nav.before = nav.length - 1 /\ nav.direction = 1)
                => nav.index = 0
          /\ (nav.before = 0 /\ nav.direction = -1)
                => nav.index = nav.length - 1
          /\ (nav.before \in 0..(nav.length - 2) /\ nav.direction = 1)
                => nav.index = nav.before + 1
          /\ (nav.before \in 1..(nav.length - 1) /\ nav.direction = -1)
                => nav.index = nav.before - 1
    /\ NavigatedNowhere =>
          /\ Len(diffBlocks) = 0
          /\ currentDiffIndex = nav.before

\* A next from the last of two Blocks, which wraps to the first.
C26_Witness ==
    /\ Navigated
    /\ nav.length = 2
    /\ nav.before = 1
    /\ nav.direction = 1
    /\ nav.index = 0

\* C27: the first navigateDiff(+1) after a comparison has completed selects
\* Block 0 and the first navigateDiff(-1) the last Block, whatever was
\* selected before and whatever navigation happened while the comparison
\* was waiting.
C27_IndexReset ==
    (Navigated /\ nav.first) =>
        nav.index = IF nav.direction > 0 THEN 0 ELSE nav.length - 1

\* The pairs shown by the rows with the given data-index values.
PairsShown(indexes) == {rows[i + 1] : i \in indexes}

\* C28: under every filter, the row navigateDiff scrolls to shows the first
\* pair of the selected Block and the rows it highlights show exactly the
\* pairs startIndex..endIndex of that Block.
C28_BlockRows ==
    Navigated =>
        LET block == diffBlocks[nav.index + 1]
        IN /\ scrolledTo.found
           /\ rows[scrolledTo.row + 1] = block.startIndex
           /\ PairsShown(highlighted) = block.startIndex..block.endIndex

\* C29: at most one debounce timer is pending, and it is the one the next
\* input event cancels; while it is pending onTextChange has not run for
\* the burst; when the burst is over onTextChange has run exactly once and
\* has read the texts then present in the inputs.
C29_Debounce ==
    /\ Cardinality(timers) <= 1
    /\ timers # {} => (timers = {debounceTimer} /\ burst.runs = 0)
    /\ (burst.began /\ timers = {}) =>
          (burst.runs = 1 /\ burst.read = "present")


\* No scan is running and no pickFolder call is waiting to go on.
ScansFinished == scans = {} /\ resumes = << >>

\* C30: compareFolders runs only on file maps that are the scans of the
\* folders selected at that time, and once all scans have finished the file
\* map of each side is the scan of the folder selected on that side, for
\* any interleaving of pickFolder calls.
C30_ConsistentScans ==
    /\ compared.ran => (compared.leftComplete /\ compared.rightComplete)
    /\ ScansFinished =>
          /\ leftFolder # NoFolder => leftFiles = scanFolder(leftFolder)
          /\ rightFolder # NoFolder => rightFiles = scanFolder(rightFolder)

====
